---------------------------- MODULE Spec2Model ----------------------------
(***************************************************************************)
(* A model of the regular-expression engine of src/src/main.rs: the        *)
(* pattern compiler (Regex::compile and its helpers), which builds the     *)
(* state graph in one pass with one character of lookahead, and the        *)
(* matching engine (Regex::match, step, found_match), which advances a     *)
(* frontier of node indices one haystack character at a time.              *)
(*                                                                         *)
(* Characters are their code points (Integers).  Node indices are 0-based  *)
(* as in the source; a TLA+ sequence is 1-based, so node i is states[i+1]. *)
(***************************************************************************)
EXTENDS Integers, Sequences, FiniteSets, TLC

(***************************************************************************)
(* Characters of the pattern language (the match arms of compile) and the  *)
(* literal alphabet the model draws from.                                  *)
(***************************************************************************)
DOT == 46
STAR == 42
PLUS == 43
QMARK == 63
PIPE == 124
LPAREN == 40
RPAREN == 41
CH_A == 97
CH_B == 98
\* Type::Literal(256) stands for "any character"; codes are stored as u16.
WILDCARD == 256
U16 == 65536

\* Bounds of the model.
MaxPat == 3
MaxAtoms == 2
MaxAlt == 1
MaxGroup == 2
MaxAround == 1
MaxHay == 3
MaxCalls == 2

Quantifiers == {STAR, PLUS, QMARK}
MetaChars == {DOT, STAR, PLUS, QMARK, PIPE, LPAREN, RPAREN}
Letters == {CH_A, CH_B}

\* All sequences over S of length lo..hi.
SeqsOf(S, lo, hi) == UNION {[1..k -> S] : k \in lo..hi}

(***************************************************************************)
(* State graph: enum Type, struct State.                                   *)
(***************************************************************************)
Begin == <<"Begin">>
Match == <<"Match">>
Literal(code) == <<"Literal", code>>

\* State::new
NewState(id, t, transitions) == [id |-> id, t |-> t, transitions |-> transitions]

Contains(seq, x) == \E i \in 1..Len(seq) : seq[i] = x

\* State::push_to_transitions: append unless already present.
\* push_to_transitions without the test for a target that is already there.
push_to_transitions_unchecked(state, p) ==
    [state EXCEPT !.transitions = Append(@, p)]

push_to_transitions(state, p) ==
    IF Contains(state.transitions, p) THEN state
    ELSE [state EXCEPT !.transitions = Append(@, p)]

\* self.states[i].push_to_transitions(p)
PushAt(sts, i, p) == [sts EXCEPT ![i + 1] = push_to_transitions(@, p)]

\* for x in from { self.states[x].push_to_transitions(p) }
RECURSIVE PushFromAll(_, _, _)
PushFromAll(sts, from, p) ==
    IF from = <<>> THEN sts
    ELSE PushFromAll(PushAt(sts, Head(from), p), Tail(from), p)

\* Regex::update_previous_nodes: every anchor gains an edge to p.
update_previous_nodes(sts, anch, p) == PushFromAll(sts, anch, p)

\* c as u16
AsU16(c) == c % U16


Last(s) == s[Len(s)]
Front(s) == SubSeq(s, 1, Len(s) - 1)
InRange(sts, i) == i >= 0 /\ i < Len(sts)
AllInRange(sts, idx) == \A k \in 1..Len(idx) : InRange(sts, idx[k])

(***************************************************************************)
(* Regex::handle_literal.  la is chars.peek(): <<>> for None, <<c>> for    *)
(* Some(c).  Returns the new graph, anchors and ptr, how many lookahead    *)
(* characters were consumed, and continue_loop.                            *)
(***************************************************************************)
\* handle_literal whose '?' arm clears the anchors as the plain arm does.
handle_literal_qmark_clears(sts, anch, p, state, la) ==
    LET np == p + 1
        looped == push_to_transitions(state, np)
        wired == update_previous_nodes(sts, anch, np)
    IN  IF la = <<STAR>> THEN
            [states |-> Append(wired, looped), anchors |-> Append(anch, np),
             ptr |-> np, eaten |-> 1, continue_loop |-> TRUE]
        ELSE IF la = <<QMARK>> THEN
            [states |-> Append(wired, state), anchors |-> <<np>>,
             ptr |-> np, eaten |-> 1, continue_loop |-> TRUE]
        ELSE IF la = <<PLUS>> THEN
            [states |-> Append(wired, looped), anchors |-> <<np>>,
             ptr |-> np, eaten |-> 1, continue_loop |-> TRUE]
        ELSE IF la # <<>> THEN
            [states |-> Append(wired, state), anchors |-> <<np>>,
             ptr |-> np, eaten |-> 0, continue_loop |-> TRUE]
        ELSE
            [states |-> Append(wired, state), anchors |-> <<np>>,
             ptr |-> np, eaten |-> 0, continue_loop |-> FALSE]

\* handle_literal that wires the anchors before self.ptr is advanced.
handle_literal_wires_early(sts, anch, p, state, la) ==
    LET np == p + 1
        looped == push_to_transitions(state, np)
        wired == update_previous_nodes(sts, anch, p)
    IN  IF la = <<STAR>> THEN
            [states |-> Append(wired, looped), anchors |-> Append(anch, np),
             ptr |-> np, eaten |-> 1, continue_loop |-> TRUE]
        ELSE IF la = <<QMARK>> THEN
            [states |-> Append(wired, state), anchors |-> Append(anch, np),
             ptr |-> np, eaten |-> 1, continue_loop |-> TRUE]
        ELSE IF la = <<PLUS>> THEN
            [states |-> Append(wired, looped), anchors |-> <<np>>,
             ptr |-> np, eaten |-> 1, continue_loop |-> TRUE]
        ELSE IF la # <<>> THEN
            [states |-> Append(wired, state), anchors |-> <<np>>,
             ptr |-> np, eaten |-> 0, continue_loop |-> TRUE]
        ELSE
            [states |-> Append(wired, state), anchors |-> <<np>>,
             ptr |-> np, eaten |-> 0, continue_loop |-> FALSE]

handle_literal(sts, anch, p, state, la) ==
    LET np == p + 1
        looped == push_to_transitions(state, np)
        wired == update_previous_nodes(sts, anch, np)
    IN  IF la = <<STAR>> THEN
            [states |-> Append(wired, looped), anchors |-> Append(anch, np),
             ptr |-> np, eaten |-> 1, continue_loop |-> TRUE]
        ELSE IF la = <<QMARK>> THEN
            [states |-> Append(wired, state), anchors |-> Append(anch, np),
             ptr |-> np, eaten |-> 1, continue_loop |-> TRUE]
        ELSE IF la = <<PLUS>> THEN
            [states |-> Append(wired, looped), anchors |-> <<np>>,
             ptr |-> np, eaten |-> 1, continue_loop |-> TRUE]
        ELSE IF la # <<>> THEN
            [states |-> Append(wired, state), anchors |-> <<np>>,
             ptr |-> np, eaten |-> 0, continue_loop |-> TRUE]
        ELSE
            [states |-> Append(wired, state), anchors |-> <<np>>,
             ptr |-> np, eaten |-> 0, continue_loop |-> FALSE]

(***************************************************************************)
(* Regex::handle_close_group, after its three pops.  The loop over the     *)
(* group's start pointers is the same in the '*', '?' and '+' arms.        *)
(***************************************************************************)
RECURSIVE WireGroupStarts(_, _, _, _, _)
WireGroupStarts(sts, gstarts, gends, start_ptr, anch) ==
    IF gstarts = <<>> THEN sts
    ELSE LET gs == Head(gstarts)
             s1 == PushFromAll(sts, gends, gs)
             s2 == PushAt(s1, start_ptr, gs)
             s3 == update_previous_nodes(s2, anch, gs)
         IN  WireGroupStarts(s3, Tail(gstarts), gends, start_ptr, anch)

\* handle_close_group whose plain arm wires the group's exits one node too far.
handle_close_group_overshoots(sts, anch, p, start_ptr, gstarts, gends, la) ==
    LET back == WireGroupStarts(sts, gstarts, gends, start_ptr, anch)
    IN  IF la = <<STAR>> \/ la = <<QMARK>> THEN
            [states |-> PushAt(PushFromAll(back, gends, p + 1), start_ptr, p + 1),
             eaten |-> 1, continue_loop |-> TRUE]
        ELSE IF la = <<PLUS>> THEN
            [states |-> PushFromAll(back, gends, p + 1),
             eaten |-> 1, continue_loop |-> TRUE]
        ELSE IF la # <<>> THEN
            [states |-> PushFromAll(sts, gends, p + 2),
             eaten |-> 0, continue_loop |-> TRUE]
        ELSE
            [states |-> sts, eaten |-> 0, continue_loop |-> FALSE]

handle_close_group(sts, anch, p, start_ptr, gstarts, gends, la) ==
    LET back == WireGroupStarts(sts, gstarts, gends, start_ptr, anch)
    IN  IF la = <<STAR>> \/ la = <<QMARK>> THEN
            [states |-> PushAt(PushFromAll(back, gends, p + 1), start_ptr, p + 1),
             eaten |-> 1, continue_loop |-> TRUE]
        ELSE IF la = <<PLUS>> THEN
            [states |-> PushFromAll(back, gends, p + 1),
             eaten |-> 1, continue_loop |-> TRUE]
        ELSE IF la # <<>> THEN
            [states |-> PushFromAll(sts, gends, p + 1),
             eaten |-> 0, continue_loop |-> TRUE]
        ELSE
            [states |-> sts, eaten |-> 0, continue_loop |-> FALSE]

(***************************************************************************)
(* Matching engine: Regex::step, the body of Regex::match for one          *)
(* character, and Regex::found_match.                                      *)
(***************************************************************************)
\* step without the wildcard test of the Literal arm.
step_no_wildcard(sts, t, c) ==
    LET ty == sts[t + 1].t
    IN  IF ty[1] = "Literal" THEN AsU16(c) = ty[2]
        ELSE TRUE

\* Regex::step: does the node at index t go into new_states on character c?
step(sts, t, c) ==
    LET ty == sts[t + 1].t
    IN  IF ty[1] = "Literal" THEN ty[2] = WILDCARD \/ AsU16(c) = ty[2]
        ELSE TRUE

\* for transition in &state.transitions { self.step(*transition, c, &mut new_states) }
RECURSIVE StepTransitions(_, _, _, _)
StepTransitions(sts, trs, c, new_states) ==
    IF trs = <<>> THEN new_states
    ELSE StepTransitions(sts, Tail(trs), c,
                         IF step(sts, Head(trs), c) THEN Append(new_states, Head(trs))
                         ELSE new_states)

\* while let Some(current_state) = self.get_next_state(): pops from the back.
RECURSIVE StepFrontier(_, _, _, _)
StepFrontier(sts, frontier, c, new_states) ==
    IF frontier = <<>> THEN new_states
    ELSE StepFrontier(sts, Front(frontier), c,
                      StepTransitions(sts, sts[Last(frontier) + 1].transitions, c, new_states))

\* Every index the inner loops of match dereference exists.
FrontierInRange(sts, frontier) ==
    /\ AllInRange(sts, frontier)
    /\ \A k \in 1..Len(frontier) : AllInRange(sts, sts[frontier[k] + 1].transitions)

\* Regex::found_match, in iteration order: "true", "false", or "panic" when an
\* index outside the graph is dereferenced before a Match node is found.
RECURSIVE ScanTransitions(_, _)
ScanTransitions(sts, trs) ==
    IF trs = <<>> THEN "false"
    ELSE IF ~InRange(sts, Head(trs)) THEN "panic"
    ELSE IF sts[Head(trs) + 1].t[1] = "Match" THEN "true"
    ELSE ScanTransitions(sts, Tail(trs))

RECURSIVE found_match(_, _)
found_match(sts, frontier) ==
    IF frontier = <<>> THEN "false"
    ELSE IF ~InRange(sts, Head(frontier)) THEN "panic"
    ELSE LET r == ScanTransitions(sts, sts[Head(frontier) + 1].transitions)
         IN  IF r = "false" THEN found_match(sts, Tail(frontier)) ELSE r

(***************************************************************************)
(* State.  pattern/pos are the pattern and its `chars` iterator (pos       *)
(* characters consumed); haystack/hptr are HayStack.s and HayStack.ptr;    *)
(* states .. next_states are the fields of struct Regex; pc is the         *)
(* position in is_match / compile / match; result is what is_match (or     *)
(* the latest match call) returned; calls counts match calls on the        *)
(* compiled object.                                                        *)
(***************************************************************************)
VARIABLES pattern, pos, haystack, hptr,
          states, ptr, anchors, group_anchors, starts, ends, next_states,
          pc, result, calls

vars == <<pattern, pos, haystack, hptr,
          states, ptr, anchors, group_anchors, starts, ends, next_states,
          pc, result, calls>>

regex_vars == <<states, ptr, anchors, group_anchors, starts, ends, next_states>>

\* Input domains.
Haystacks == SeqsOf(Letters, 0, MaxHay)
Sigma == Letters \cup MetaChars
AllPatterns == SeqsOf(Sigma, 0, MaxPat)

\* The struct literal at the top of compile, for the call is_match(s, p).
InitOn(patterns, haystacks) ==
    /\ pattern \in patterns
    /\ haystack \in haystacks
    /\ pos = 0
    /\ hptr = 0
    /\ states = <<NewState(0, Begin, <<1>>)>>
    /\ ptr = 0
    /\ anchors = <<0>>
    /\ group_anchors = <<0>>
    /\ starts = << <<>> >>
    /\ ends = << <<>> >>
    /\ next_states = <<0>>
    /\ pc = "start"
    /\ result = "None"
    /\ calls = 0

InitWith(patterns) == InitOn(patterns, Haystacks)

Init == InitWith(AllPatterns)

\* The current character `c` of the compile loop and chars.peek() after it.
Cur == pattern[pos + 1]
Peek == IF pos + 2 <= Len(pattern) THEN <<pattern[pos + 2]>> ELSE <<>>

\* Where the loop goes after an iteration that consumed up to newpos: a `break`
\* or an exhausted iterator leads to finish_regex.
AfterIteration(newpos, continue_loop) ==
    IF continue_loop /\ newpos < Len(pattern) THEN "loop" ELSE "finish"

\* compile returns Err(..), which is_match propagates with `?`.
ReturnErr ==
    /\ pc' = "error"
    /\ result' = "Err"
    /\ UNCHANGED <<pattern, pos, haystack, hptr, regex_vars, calls>>

\* An unwrap() on None or an index outside a Vec: the thread panics.
Panic ==
    /\ pc' = "panic"
    /\ result' = "Panic"
    /\ UNCHANGED <<pattern, pos, haystack, hptr, regex_vars, calls>>

\* A compile that lacks the empty-pattern check.
pattern_is_empty_unchecked(p) == FALSE

\* pattern.is_empty()
pattern_is_empty(p) == Len(p) = 0

\* The empty-pattern check of compile.
CompileCheckEmpty ==
    /\ pc = "start"
    /\ IF pattern_is_empty(pattern)
       THEN ReturnErr
       ELSE /\ pc' = AfterIteration(0, TRUE)
            /\ UNCHANGED <<pattern, pos, haystack, hptr, regex_vars, result, calls>>

\* The '.' arm and the default arm: build a Literal state and handle_literal.
CompileAtom(state) ==
    LET r == handle_literal(states, anchors, ptr, state, Peek)
        newpos == pos + 1 + r.eaten
    IN  IF ~AllInRange(states, anchors) THEN Panic
        ELSE /\ states' = r.states
             /\ anchors' = r.anchors
             /\ ptr' = r.ptr
             /\ pos' = newpos
             /\ pc' = AfterIteration(newpos, r.continue_loop)
             /\ UNCHANGED <<pattern, haystack, hptr, group_anchors, starts, ends,
                            next_states, result, calls>>

\* The '.' arm numbering its state with self.ptr instead of self.ptr + 1.
CompileDotStaleId ==
    /\ pc = "loop"
    /\ Cur = DOT
    /\ CompileAtom(NewState(ptr, Literal(WILDCARD), <<>>))

CompileDot ==
    /\ pc = "loop"
    /\ Cur = DOT
    /\ CompileAtom(NewState(ptr + 1, Literal(WILDCARD), <<>>))

CompileLiteral ==
    /\ pc = "loop"
    /\ Cur \notin MetaChars
    /\ CompileAtom(NewState(ptr + 1, Literal(AsU16(Cur)), <<>>))

\* The '*' | '+' | '?' arm: a quantifier that no atom or group consumed.
CompileQuantifier ==
    /\ pc = "loop"
    /\ Cur \in Quantifiers
    /\ ReturnErr

\* The '|' arm.
CompilePipe ==
    /\ pc = "loop"
    /\ Cur = PIPE
    /\ IF Peek = <<>> THEN ReturnErr
       ELSE IF (anchors # <<>> /\ ends = <<>>) \/ starts = <<>> \/ group_anchors = <<>>
            THEN Panic
       ELSE IF ~InRange(states, Last(group_anchors)) THEN Panic
       ELSE /\ ends' = [ends EXCEPT ![Len(ends)] = @ \o anchors]
            /\ starts' = [starts EXCEPT ![Len(starts)] = Append(@, ptr + 1)]
            /\ states' = PushAt(states, Last(group_anchors), ptr + 1)
            /\ pos' = pos + 1
            /\ pc' = AfterIteration(pos + 1, TRUE)
            /\ UNCHANGED <<pattern, haystack, hptr, ptr, anchors, group_anchors,
                           next_states, result, calls>>

\* The '(' arm.
CompileOpen ==
    /\ pc = "loop"
    /\ Cur = LPAREN
    /\ group_anchors' = Append(group_anchors, ptr)
    /\ starts' = Append(starts, <<ptr + 1>>)
    /\ ends' = Append(ends, <<>>)
    /\ pos' = pos + 1
    /\ pc' = AfterIteration(pos + 1, TRUE)
    /\ UNCHANGED <<pattern, haystack, hptr, states, ptr, anchors, next_states,
                   result, calls>>

\* The ')' arm: push ptr on the top exit list, then handle_close_group.
CompileClose ==
    /\ pc = "loop"
    /\ Cur = RPAREN
    /\ IF ends = <<>> \/ group_anchors = <<>> \/ starts = <<>> THEN Panic
       ELSE LET start_ptr == Last(group_anchors)
                gstarts == Last(starts)
                gends == Append(Last(ends), ptr)
                r == handle_close_group(states, anchors, ptr, start_ptr, gstarts,
                                        gends, Peek)
                newpos == pos + 1 + r.eaten
            IN  IF ~(InRange(states, start_ptr) /\ AllInRange(states, gends)
                                               /\ AllInRange(states, anchors))
                THEN Panic
                ELSE /\ group_anchors' = Front(group_anchors)
                     /\ starts' = Front(starts)
                     /\ ends' = Front(ends)
                     /\ states' = r.states
                     /\ pos' = newpos
                     /\ pc' = AfterIteration(newpos, r.continue_loop)
                     /\ UNCHANGED <<pattern, haystack, hptr, ptr, anchors,
                                    next_states, result, calls>>

\* Regex::finish_regex (with update_ends), then compile returns Ok(regex).
Finish ==
    /\ pc = "finish"
    /\ IF ends = <<>> THEN Panic
       ELSE IF ~(AllInRange(states, anchors) /\ AllInRange(states, Last(ends))) THEN Panic
       ELSE LET new_ptr == ptr + 1
                wired == update_previous_nodes(states, anchors, new_ptr)
                flushed == PushFromAll(wired, Last(ends), new_ptr)
            IN  /\ states' = Append(flushed, NewState(new_ptr, Match, <<>>))
                /\ ends' = Front(ends)
                /\ ptr' = 0
                /\ pc' = "compiled"
                /\ UNCHANGED <<pattern, pos, haystack, hptr, anchors, group_anchors,
                               starts, next_states, result, calls>>

\* is_match: HayStack::new(&s) and the call of regex.match(haystack).
BeginMatch ==
    /\ pc = "compiled"
    /\ hptr' = 0
    /\ calls' = 1
    /\ pc' = "match"
    /\ UNCHANGED <<pattern, pos, haystack, regex_vars, result>>

\* A match loop that keeps the new frontier in Begin's edge list.
MatchCharWritesGraph ==
    /\ pc = "match"
    /\ hptr < Len(haystack)
    /\ IF ~FrontierInRange(states, next_states) THEN Panic
       ELSE LET new_states == StepFrontier(states, next_states, haystack[hptr + 1], <<>>)
            IN  /\ next_states' = new_states
                /\ states' = [states EXCEPT ![1].transitions = new_states]
                /\ hptr' = hptr + 1
                /\ UNCHANGED <<pattern, pos, haystack, ptr, anchors, group_anchors,
                               starts, ends, pc, result, calls>>

\* One iteration of the outer loop of Regex::match: get_char returned Some(c).
MatchChar ==
    /\ pc = "match"
    /\ hptr < Len(haystack)
    /\ IF ~FrontierInRange(states, next_states) THEN Panic
       ELSE /\ next_states' = StepFrontier(states, next_states, haystack[hptr + 1], <<>>)
            /\ hptr' = hptr + 1
            /\ UNCHANGED <<pattern, pos, haystack, states, ptr, anchors, group_anchors,
                           starts, ends, pc, result, calls>>

\* get_char returned None: Regex::match returns found_match().
FoundMatch ==
    /\ pc = "match"
    /\ hptr >= Len(haystack)
    /\ LET r == found_match(states, next_states)
       IN  IF r = "panic" THEN Panic
           ELSE /\ result' = (IF r = "true" THEN "Ok_true" ELSE "Ok_false")
                /\ pc' = "matched"
                /\ UNCHANGED <<pattern, pos, haystack, hptr, regex_vars, calls>>

\* A further regex.match(HayStack::new(s)) on the same compiled object.
MatchAgain ==
    /\ pc = "matched"
    /\ calls < MaxCalls
    /\ haystack' \in Haystacks
    /\ hptr' = 0
    /\ calls' = calls + 1
    /\ pc' = "match"
    /\ result' = "None"
    /\ UNCHANGED <<pattern, pos, regex_vars>>

Compile ==
    \/ CompileCheckEmpty
    \/ CompileDot
    \/ CompileLiteral
    \/ CompileQuantifier
    \/ CompilePipe
    \/ CompileOpen
    \/ CompileClose
    \/ Finish

Next ==
    \/ Compile
    \/ BeginMatch
    \/ MatchChar
    \/ FoundMatch

Spec == Init /\ [][Next]_vars

\* The compiled object is kept and matched again.
NextReuse ==
    \/ Next
    \/ MatchAgain

(***************************************************************************)
(* Pattern families the claims quantify over.                              *)
(***************************************************************************)
Atoms == Letters \cup {DOT}
Items == {<<a>> : a \in Atoms} \cup {<<a, q>> : a \in Atoms, q \in Quantifiers}

\* Concatenations of exactly n optionally quantified atoms.
RECURSIVE ItemSeqs(_)
ItemSeqs(n) ==
    IF n = 0 THEN {<<>>}
    ELSE {i \o r : i \in Items, r \in ItemSeqs(n - 1)}

LetterItems == {<<a>> : a \in Letters} \cup {<<a, q>> : a \in Letters, q \in Quantifiers}

RECURSIVE LetterItemSeqs(_)
LetterItemSeqs(n) ==
    IF n = 0 THEN {<<>>}
    ELSE {i \o r : i \in LetterItems, r \in LetterItemSeqs(n - 1)}

\* Up to MaxAtoms items over the letters and '.', and one more over the letters.
QuantPatterns ==
    UNION {ItemSeqs(k) : k \in 1..MaxAtoms}
        \cup UNION {LetterItemSeqs(k) : k \in 1..(MaxAtoms + 1)}
OneChar == SeqsOf(Sigma, 0, 1)

InitQuant == InitWith(QuantPatterns \cup OneChar)
SpecQuant == InitQuant /\ [][Next]_vars

IsAtom(c) == c \notin MetaChars \/ c = DOT
IsAscii(s) == \A i \in 1..Len(s) : s[i] < 128

\* A non-empty pattern of literal characters and '.' only.
IsPlain(p) == Len(p) >= 1 /\ \A i \in 1..Len(p) : IsAtom(p[i])

\* A non-empty sequence of atoms, each followed by at most one quantifier.
IsQuantSeq(p) ==
    /\ Len(p) >= 1
    /\ IsAtom(p[1])
    /\ \A i \in 1..Len(p) : IsAtom(p[i]) \/ p[i] \in Quantifiers
    /\ \A i \in 1..(Len(p) - 1) : ~(p[i] \in Quantifiers /\ p[i + 1] \in Quantifiers)

\* is_match has returned (a value, an error) or panicked.
Returned == pc \in {"matched", "error", "panic"}
OkOf(b) == IF b THEN "Ok_true" ELSE "Ok_false"

(***************************************************************************)
(* Reference semantics the claims compare the engine with.                 *)
(***************************************************************************)
AtomAccepts(a, c) == a = DOT \/ a = c

\* Position-wise match of a plain pattern.
PlainRef(s, p) ==
    /\ Len(s) = Len(p)
    /\ \A i \in 1..Len(p) : AtomAccepts(p[i], s[i])

\* Full-string match of a sequence of optionally quantified atoms.
RECURSIVE QuantRef(_, _)
QuantRef(p, s) ==
    IF p = <<>> THEN s = <<>>
    ELSE LET a == p[1]
             q == IF Len(p) >= 2 /\ p[2] \in Quantifiers THEN <<p[2]>> ELSE <<>>
             rest == SubSeq(p, 2 + Len(q), Len(p))
             eat == s # <<>> /\ AtomAccepts(a, s[1])
         IN  IF q = <<STAR>> THEN QuantRef(rest, s) \/ (eat /\ QuantRef(p, Tail(s)))
             ELSE IF q = <<PLUS>> THEN eat /\ QuantRef(<<a, STAR>> \o rest, Tail(s))
             ELSE IF q = <<QMARK>> THEN QuantRef(rest, s) \/ (eat /\ QuantRef(rest, Tail(s)))
             ELSE eat /\ QuantRef(rest, Tail(s))

(***************************************************************************)
(* C1: for a pattern of ASCII literal characters and '.' only and an ASCII *)
(* haystack, is_match returns Ok(true) exactly when the haystack has the   *)
(* pattern's length and every position agrees (p[i] is '.' or equals      *)
(* s[i]); proper prefixes and proper extensions of a match are rejected.   *)
(***************************************************************************)
C1_PlainFullMatch ==
    (Returned /\ calls <= 1 /\ IsPlain(pattern) /\ IsAscii(pattern) /\ IsAscii(haystack))
        => (result = OkOf(PlainRef(haystack, pattern)))

\* A pattern with a literal and a '.' has matched a haystack of its length.
C1_Witness ==
    /\ pc = "matched"
    /\ IsPlain(pattern)
    /\ Len(pattern) >= 2
    /\ \E i, j \in 1..Len(pattern) : pattern[i] = DOT /\ pattern[j] \in Letters
    /\ result = "Ok_true"

Alternatives == UNION {LetterItemSeqs(k) : k \in 1..MaxAlt}
AltPatterns == {A \o <<PIPE>> \o B : A \in Alternatives, B \in Alternatives}

GroupBodies == UNION {LetterItemSeqs(k) : k \in 1..MaxGroup}
Around == SeqsOf({CH_A}, 0, MaxAround)
GroupPlusPatterns ==
    {X \o <<LPAREN>> \o G \o <<RPAREN, PLUS>> \o Y :
        X \in Around, G \in GroupBodies, Y \in Around}

\* A leading '|' and a doubled '|'.
PipePatterns ==
    {<<PIPE>> \o A : A \in Alternatives}
        \cup {A \o <<PIPE, PIPE>> \o B : A \in Alternatives, B \in Alternatives}

InitGroup == InitWith(AltPatterns \cup PipePatterns \cup GroupPlusPatterns \cup OneChar)
SpecGroup == InitGroup /\ [][Next]_vars

\* Positions of character c in p.
Positions(p, c) == {i \in 1..Len(p) : p[i] = c}
Before(p, i) == SubSeq(p, 1, i - 1)
After(p, i) == SubSeq(p, i + 1, Len(p))

\* A|B with both alternatives non-empty sequences of optionally quantified atoms.
IsAlternation(p) ==
    /\ Cardinality(Positions(p, PIPE)) = 1
    /\ LET i == CHOOSE i \in Positions(p, PIPE) : TRUE
       IN  IsQuantSeq(Before(p, i)) /\ IsQuantSeq(After(p, i))

AltRef(p, s) ==
    LET i == CHOOSE i \in Positions(p, PIPE) : TRUE
    IN  QuantRef(Before(p, i), s) \/ QuantRef(After(p, i), s)

\* X(G)+Y: X and Y plain (possibly empty), G a sequence of optionally
\* quantified atoms.
IsPlainOrEmpty(p) == \A i \in 1..Len(p) : IsAtom(p[i])
IsGroupPlus(p) ==
    /\ Cardinality(Positions(p, LPAREN)) = 1
    /\ Cardinality(Positions(p, RPAREN)) = 1
    /\ LET i == CHOOSE i \in Positions(p, LPAREN) : TRUE
           j == CHOOSE j \in Positions(p, RPAREN) : TRUE
       IN  /\ i < j
           /\ j < Len(p)
           /\ p[j + 1] = PLUS
           /\ IsPlainOrEmpty(Before(p, i))
           /\ IsQuantSeq(SubSeq(p, i + 1, j - 1))
           /\ IsPlainOrEmpty(After(p, j + 1))

\* s is one or more consecutive matches of G.
RECURSIVE OneOrMore(_, _)
OneOrMore(G, s) ==
    \/ QuantRef(G, s)
    \/ \E k \in 1..(Len(s) - 1) :
          QuantRef(G, SubSeq(s, 1, k)) /\ OneOrMore(G, SubSeq(s, k + 1, Len(s)))

GroupPlusRef(p, s) ==
    LET i == CHOOSE i \in Positions(p, LPAREN) : TRUE
        j == CHOOSE j \in Positions(p, RPAREN) : TRUE
        X == Before(p, i)
        G == SubSeq(p, i + 1, j - 1)
        Y == After(p, j + 1)
    IN  \E a \in 0..Len(s) : \E b \in a..Len(s) :
           /\ QuantRef(X, SubSeq(s, 1, a))
           /\ OneOrMore(G, SubSeq(s, a + 1, b))
           /\ QuantRef(Y, SubSeq(s, b + 1, Len(s)))

(***************************************************************************)
(* C3: alternation accepts exactly the union: is_match(s, "A|B") is true   *)
(* iff s fully matches A or s fully matches B (the alternative after '|'   *)
(* is wired from the entry point only).                                    *)
(***************************************************************************)
C3_AlternationIsUnion ==
    (Returned /\ calls <= 1 /\ IsAlternation(pattern))
        => (result = OkOf(AltRef(pattern, haystack)))

(***************************************************************************)
(* C4: is_match(s, "X(G)+Y") is true iff s is a match of X, then one or    *)
(* more consecutive matches of G, then a match of Y.                       *)
(***************************************************************************)
C4_GroupPlus ==
    (Returned /\ calls <= 1 /\ IsGroupPlus(pattern))
        => (result = OkOf(GroupPlusRef(pattern, haystack)))

(***************************************************************************)
(* Malformed patterns (checked over every pattern of AllPatterns).         *)
(***************************************************************************)
\* compile has returned or panicked.
CompileEnded == pc \notin {"start", "loop", "finish"}

\* A quantifier at the start, or right after '(', '|' or another quantifier.
HasDanglingQuantifier(p) ==
    \E i \in 1..Len(p) :
        /\ p[i] \in Quantifiers
        /\ (i = 1 \/ p[i - 1] \in {LPAREN, PIPE} \cup Quantifiers)

EndsWithPipe(p) == Len(p) >= 1 /\ p[Len(p)] = PIPE

LeadingOrDoubledPipe(p) ==
    /\ Len(p) >= 1
    /\ (p[1] = PIPE \/ \E i \in 1..(Len(p) - 1) : p[i] = PIPE /\ p[i + 1] = PIPE)

(***************************************************************************)
(* C5: compile returns an error for every pattern that contains a '*',     *)
(* '+' or '?' at the start, right after '(', right after '|', or right     *)
(* after another quantifier.                                               *)
(***************************************************************************)
C5_DanglingQuantifierRejected ==
    (CompileEnded /\ HasDanglingQuantifier(pattern)) => (pc = "error" /\ result = "Err")

(***************************************************************************)
(* C6: compile returns an error, and no graph, for every pattern whose     *)
(* last character is '|'.                                                  *)
(***************************************************************************)
C6_TrailingPipeRejected ==
    (CompileEnded /\ EndsWithPipe(pattern)) => (pc = "error" /\ result = "Err")

(***************************************************************************)
(* C7: compile returns an error whenever '|' is the first character of     *)
(* the pattern or directly follows another '|'.                            *)
(***************************************************************************)
C7_LeadingOrDoubledPipeRejected ==
    (CompileEnded /\ LeadingOrDoubledPipe(pattern)) => (pc = "error" /\ result = "Err")

(***************************************************************************)
(* C8: compile("") returns an error, and is_match(s, "") returns that      *)
(* error, not a boolean, for every haystack s.                             *)
(***************************************************************************)
C8_EmptyPatternRejected ==
    (pattern = <<>> /\ pc # "start") => (pc = "error" /\ result = "Err")

\* is_match(s, "") has returned for a non-empty haystack.
C8_Witness ==
    /\ pattern = <<>>
    /\ haystack # <<>>
    /\ pc = "error"

(***************************************************************************)
(* Reuse of one compiled object for several match calls.                   *)
(***************************************************************************)
ReusePatterns == UNION {LetterItemSeqs(k) : k \in 1..MaxAtoms} \cup OneChar
InitReuse == InitWith(ReusePatterns)
SpecReuse == InitReuse /\ [][NextReuse]_vars

\* The first match of s on a freshly compiled graph: the frontier starts at Begin.
RECURSIVE FreshMatch(_, _, _)
FreshMatch(sts, frontier, s) ==
    IF s = <<>> THEN found_match(sts, frontier)
    ELSE FreshMatch(sts, StepFrontier(sts, frontier, Head(s), <<>>), Tail(s))

(***************************************************************************)
(* C9: every match call on a compiled object returns the boolean that the  *)
(* first match of the same haystack on a freshly compiled copy returns     *)
(* (a run that starts from the frontier {Begin}).                          *)
(***************************************************************************)
C9_CompiledPatternReusable ==
    (pc = "matched") => (result = OkOf(FreshMatch(states, <<0>>, haystack) = "true"))

(***************************************************************************)
(* C10: during and after any match call the graph (the sequence of nodes,  *)
(* every node's kind and edge list) is what compile produced; of the       *)
(* Regex fields only the frontier changes.                                 *)
(***************************************************************************)
C10_MatchLeavesGraphUnchanged ==
    [][(pc \in {"compiled", "match", "matched"})
          => (/\ states' = states
              /\ <<ptr, anchors, group_anchors, starts, ends>>'
                    = <<ptr, anchors, group_anchors, starts, ends>>)]_vars

\* A second call has finished and the frontier is no longer {Begin}.
C10_Witness ==
    /\ pc = "matched"
    /\ calls = 2
    /\ haystack # <<>>
    /\ next_states # <<0>>
    /\ next_states # <<>>

(***************************************************************************)
(* Groups over the letters: without a quantifier, X(A)Y and X(A|B)Y, and   *)
(* skippable, X(G)*Y and X(G)?Y.                                           *)
(***************************************************************************)
UnquantGroupPatterns ==
    {X \o <<LPAREN>> \o A \o <<RPAREN>> \o Y :
        X \in Around, A \in Alternatives, Y \in Around}
        \cup {X \o <<LPAREN>> \o A \o <<PIPE>> \o B \o <<RPAREN>> \o Y :
                X \in Around, A \in Alternatives, B \in Alternatives, Y \in Around}

OptItems == {<<>>} \cup LetterItems
SkipGroupPatterns ==
    {X \o <<LPAREN>> \o G \o <<RPAREN, q>> \o Y :
        X \in OptItems, G \in LetterItems, Y \in OptItems, q \in {STAR, QMARK}}

OptGroupPatterns ==
    {<<LPAREN>> \o G \o <<RPAREN, QMARK>> : G \in SeqsOf(Letters, 1, MaxGroup)}

InitWire ==
    InitWith(UnquantGroupPatterns \cup SkipGroupPatterns \cup OptGroupPatterns \cup OneChar)
SpecWire == InitWire /\ [][Next]_vars

\* Index of the node that handle_literal creates for the atom at position k.
NodeOf(p, k) == Cardinality({m \in 1..k : IsAtom(p[m])})

\* The atom at position k may be skipped ('*' or '?' follows it).
Skippable(p, k) == k < Len(p) /\ p[k + 1] \in {STAR, QMARK}

\* Positions of the atoms an alternative spanning lo..hi can end on.
ExitPositions(p, lo, hi) ==
    {k \in lo..hi :
        /\ IsAtom(p[k])
        /\ \A m \in (k + 1)..hi : IsAtom(p[m]) => Skippable(p, m)}

\* X(A)Y or X(A|B)Y with no quantifier after ')'.
IsUnquantGroup(p) ==
    /\ Cardinality(Positions(p, LPAREN)) = 1
    /\ Cardinality(Positions(p, RPAREN)) = 1
    /\ Cardinality(Positions(p, PIPE)) <= 1
    /\ LET i == CHOOSE i \in Positions(p, LPAREN) : TRUE
           j == CHOOSE j \in Positions(p, RPAREN) : TRUE
       IN  /\ i < j
           /\ \A k \in Positions(p, PIPE) :
                 /\ i < k /\ k < j
                 /\ IsQuantSeq(SubSeq(p, i + 1, k - 1))
                 /\ IsQuantSeq(SubSeq(p, k + 1, j - 1))
           /\ Positions(p, PIPE) = {} => IsQuantSeq(SubSeq(p, i + 1, j - 1))
           /\ IsPlainOrEmpty(Before(p, i))
           /\ IsPlainOrEmpty(After(p, j))

\* The spans lo..hi of the alternatives of the group.
AltSpans(p) ==
    LET i == CHOOSE i \in Positions(p, LPAREN) : TRUE
        j == CHOOSE j \in Positions(p, RPAREN) : TRUE
    IN  IF Positions(p, PIPE) = {} THEN {<<i + 1, j - 1>>}
        ELSE LET k == CHOOSE k \in Positions(p, PIPE) : TRUE
             IN  {<<i + 1, k - 1>>, <<k + 1, j - 1>>}

\* Index of the node that follows the group (Match when ')' is the last token).
FollowNode(p) == NodeOf(p, CHOOSE j \in Positions(p, RPAREN) : TRUE) + 1

(***************************************************************************)
(* C11: after compiling a group whose ')' is not followed by a quantifier, *)
(* every exit node of every alternative of the group has an edge to the    *)
(* node that follows the group; when the group ends the pattern that node  *)
(* is Match.                                                               *)
(***************************************************************************)
C11_UnquantifiedCloseWiresAllExits ==
    (pc = "compiled" /\ IsUnquantGroup(pattern))
        => \A sp \in AltSpans(pattern) :
              \A k \in ExitPositions(pattern, sp[1], sp[2]) :
                 Contains(states[NodeOf(pattern, k) + 1].transitions, FollowNode(pattern))

\* X(G)*Y or X(G)?Y: X and Y possibly empty sequences of optionally quantified
\* atoms, G a non-empty one.
IsQuantSeqOrEmpty(p) == p = <<>> \/ IsQuantSeq(p)
IsSkipGroup(p) ==
    /\ Cardinality(Positions(p, LPAREN)) = 1
    /\ Cardinality(Positions(p, RPAREN)) = 1
    /\ Positions(p, PIPE) = {}
    /\ LET i == CHOOSE i \in Positions(p, LPAREN) : TRUE
           j == CHOOSE j \in Positions(p, RPAREN) : TRUE
       IN  /\ i < j
           /\ j < Len(p)
           /\ p[j + 1] \in {STAR, QMARK}
           /\ IsQuantSeqOrEmpty(Before(p, i))
           /\ IsQuantSeq(SubSeq(p, i + 1, j - 1))
           /\ IsQuantSeqOrEmpty(After(p, j + 1))

\* The pattern XY that is left of X(G)qY when the group is skipped.
WithoutGroup(p) ==
    LET i == CHOOSE i \in Positions(p, LPAREN) : TRUE
        j == CHOOSE j \in Positions(p, RPAREN) : TRUE
    IN  Before(p, i) \o After(p, j + 1)

(***************************************************************************)
(* C12: a group followed by '*' or '?' can be skipped: every haystack that *)
(* fully matches "XY" is accepted by "X(G)*Y" and by "X(G)?Y" (the atoms   *)
(* after the group are wired from the anchors at group entry as well as    *)
(* from the group's exits).                                                *)
(***************************************************************************)
C12_SkippableGroupCanBeSkipped ==
    (Returned /\ calls <= 1 /\ IsSkipGroup(pattern)
        /\ QuantRef(WithoutGroup(pattern), haystack))
        => (result = "Ok_true")

\* (G)? with G a non-empty sequence of plain atoms.
IsOptGroup(p) ==
    /\ Len(p) >= 4
    /\ p[1] = LPAREN
    /\ p[Len(p) - 1] = RPAREN
    /\ p[Len(p)] = QMARK
    /\ IsPlain(SubSeq(p, 2, Len(p) - 2))

(***************************************************************************)
(* C13: is_match(s, "(G)?") is true iff s is empty or s is exactly one     *)
(* match of G; two or more consecutive matches of G are rejected.          *)
(***************************************************************************)
C13_OptionalGroupAtMostOnce ==
    (Returned /\ calls <= 1 /\ IsOptGroup(pattern))
        => (result = OkOf(haystack = <<>>
                            \/ PlainRef(haystack, SubSeq(pattern, 2, Len(pattern) - 2))))

(***************************************************************************)
(* Sentinel nodes and the frontier.                                        *)
(***************************************************************************)
\* The frontier entries, as node kinds.
KindAt(sts, n) == sts[n + 1].t[1]
FrontierKinds == {KindAt(states, next_states[k]) : k \in 1..Len(next_states)}
InMatchCall == pc \in {"match", "matched"}

(***************************************************************************)
(* C14 (as stated): during a match call the frontier never contains the    *)
(* index of a Match node, and the index of Begin only before the first     *)
(* character is consumed.                                                  *)
(***************************************************************************)
C14_SentinelsNeverActive ==
    InMatchCall
        => /\ "Match" \notin FrontierKinds
           /\ ("Begin" \in FrontierKinds) => hptr = 0

(***************************************************************************)
(* C14 (amended): during a match call the index of Begin is in the         *)
(* frontier only before the first character is consumed, when the frontier *)
(* is exactly <<0>>; the index of Match can be in the frontier after a     *)
(* character has been consumed (step pushes a Match target), and a Match   *)
(* node in the frontier has no outgoing edge.                              *)
(***************************************************************************)
C14_OnlyMatchSentinelActive ==
    InMatchCall
        => /\ ("Begin" \in FrontierKinds) => (hptr = 0 /\ next_states = <<0>>)
           /\ \A k \in 1..Len(next_states) :
                 KindAt(states, next_states[k]) = "Match"
                    => states[next_states[k] + 1].transitions = <<>>

\* The haystack has been consumed past an accepting node: Match is in the
\* frontier.
C14_Witness ==
    /\ pc = "matched"
    /\ hptr >= 1
    /\ "Match" \in FrontierKinds
    /\ result = "Ok_false"

(***************************************************************************)
(* C15: during a match call, after every consumed character the number of  *)
(* entries held in the frontier is at most the number of nodes of the      *)
(* graph.                                                                  *)
(***************************************************************************)
C15_FrontierBoundedByGraph ==
    (InMatchCall /\ hptr >= 1) => (Len(next_states) <= Len(states))

(***************************************************************************)
(* C16: after a successful compile node 0 is the only Begin node, the last *)
(* node is the only Match node, every node between them is a Literal, and  *)
(* each node's id equals its index.                                        *)
(***************************************************************************)
C16_GraphShape ==
    (pc \in {"compiled", "match", "matched"})
        => /\ Len(states) >= 2
           /\ \A i \in 1..Len(states) :
                 /\ states[i].id = i - 1
                 /\ (states[i].t = Begin) <=> (i = 1)
                 /\ (states[i].t = Match) <=> (i = Len(states))
                 /\ (1 < i /\ i < Len(states)) => states[i].t[1] = "Literal"

\* A compiled graph with a '.' node and a letter node between Begin and Match.
C16_Witness ==
    /\ pc = "compiled"
    /\ Len(states) >= 4
    /\ \E i, j \in 2..(Len(states) - 1) :
          /\ states[i].t = Literal(WILDCARD)
          /\ states[j].t \in {Literal(CH_A), Literal(CH_B)}

(***************************************************************************)
(* Growth of the graph during compile.                                     *)
(***************************************************************************)
\* No edge list holds the same target twice.
NoDuplicateEdges(sts) ==
    \A i \in 1..Len(sts) :
        \A a, b \in 1..Len(sts[i].transitions) :
            sts[i].transitions[a] = sts[i].transitions[b] => a = b

\* Every node of old is a node of new with the same id and kind, and every
\* edge of old is an edge of new.
GraphExtends(old, new) ==
    /\ Len(new) >= Len(old)
    /\ \A i \in 1..Len(old) :
          /\ new[i].id = old[i].id
          /\ new[i].t = old[i].t
          /\ \A a \in 1..Len(old[i].transitions) :
                Contains(new[i].transitions, old[i].transitions[a])

(***************************************************************************)
(* C17: across every step of compile no node is removed, no node's kind    *)
(* changes, every edge that existed still exists, and no node's edge list  *)
(* contains the same target twice.                                         *)
(***************************************************************************)
C17_CompileGrowsGraphMonotonically ==
    [][/\ GraphExtends(states, states')
       /\ NoDuplicateEdges(states')]_vars

\* Compile has finished a graph in which a node was wired more than once
\* while the graph grew, and no edge list holds a target twice.
C17_Witness ==
    /\ pc = "compiled"
    /\ Len(states) >= 4
    /\ \E i \in 1..Len(states) : Len(states[i].transitions) >= 2
    /\ NoDuplicateEdges(states)

(***************************************************************************)
(* Matching on a compiled graph.                                           *)
(***************************************************************************)
\* Every edge target is the index of an existing node other than Begin.
EdgeTargetsValid(sts) ==
    \A i \in 1..Len(sts) :
        \A a \in 1..Len(sts[i].transitions) :
            /\ sts[i].transitions[a] >= 1
            /\ InRange(sts, sts[i].transitions[a])

\* What holds in every state once compile has returned Ok.
MatchingIsSafe ==
    /\ (pc \in {"compiled", "match", "matched"})
          => (EdgeTargetsValid(states) /\ AllInRange(states, next_states))
    /\ (calls >= 1) => (pc # "panic")
    /\ (pc = "match") => ENABLED (MatchChar \/ FoundMatch)
    /\ (pc = "matched") => (hptr = Len(haystack) /\ result \in {"Ok_true", "Ok_false"})

\* A step of the match loop consumes exactly one character, or finds the
\* haystack used up and returns a boolean.
MatchStepConsumesOne ==
    (pc = "match")
        => \/ /\ hptr < Len(haystack)
              /\ hptr' = hptr + 1
              /\ pc' = "match"
           \/ /\ hptr = Len(haystack)
              /\ hptr' = hptr
              /\ pc' = "matched"
              /\ result' \in {"Ok_true", "Ok_false"}

(***************************************************************************)
(* C18: for every pattern on which compile returns Ok, every edge target   *)
(* is the index of an existing node and is at least 1, and for every       *)
(* haystack the match loop consumes each character exactly once, never     *)
(* indexes outside the graph (no panic), and ends with a boolean.          *)
(***************************************************************************)
C18_MatchingCannotFail ==
    []MatchingIsSafe /\ [][MatchStepConsumesOne]_vars

\* A match over a graph built from a group has consumed three characters and
\* returned.
C18_Witness ==
    /\ pc = "matched"
    /\ hptr = 3
    /\ \E i, j \in 1..Len(pattern) : i < j /\ pattern[i] \in Letters /\ pattern[j] = RPAREN
    /\ result \in {"Ok_true", "Ok_false"}

(***************************************************************************)
(* C19: for every pattern over literals and . * + ? | ( ), an unmatched    *)
(* ')' and an unclosed '(' included, compile ends with a graph or with an  *)
(* error value; it never panics (no unwrap on an empty group stack).       *)
(***************************************************************************)
C19_CompileNeverPanics ==
    /\ pc # "panic"
    /\ CompileEnded => (pc = "error" /\ result = "Err") \/ pc \in {"compiled", "match", "matched"}

(***************************************************************************)
(* Characters beyond ASCII: U+0100, whose code is the wildcard sentinel,   *)
(* and U+10061, whose code is that of 'a' plus 2^16.                       *)
(***************************************************************************)
CH_U0100 == WILDCARD
CH_U10061 == U16 + CH_A
WideChars == Letters \cup {CH_U0100, CH_U10061}
WidePatterns == SeqsOf(WideChars \cup {DOT}, 1, MaxAtoms)
WideHaystacks == SeqsOf(WideChars, 0, MaxAtoms)

InitWide == InitOn(WidePatterns \cup OneChar, WideHaystacks)
SpecWide == InitWide /\ [][Next]_vars

(***************************************************************************)
(* C20: literal comparison is exact for every character code: for a        *)
(* pattern of literal characters and '.' only, is_match is true iff the    *)
(* haystack has the pattern's length and at every position the pattern has *)
(* '.' or the very same character, also for characters with code 256 and   *)
(* with codes of 65536 or more; only '.' accepts every character.          *)
(***************************************************************************)
C20_LiteralComparisonExact ==
    (Returned /\ calls <= 1 /\ IsPlain(pattern))
        => (result = OkOf(PlainRef(haystack, pattern)))

=============================================================================
